---- MODULE Spec2Model ----
(***************************************************************************)
(* A model of pandora-jar's SecretsLoader (secrets-loader.ts): the         *)
(* three-tier initialize() chain (SDK, CLI, backup file), the backup file  *)
(* save/load, populateEnv and the 60 second polling timer; of its          *)
(* getInfisicalEnvironment and execWithStreaming; and of the run command   *)
(* of the command line front end (cli.ts).  Further specifications look   *)
(* at one aspect each: the two readers of key=value text, the environment  *)
(* name of successive fetches, and polling callbacks that overlap.         *)
(*                                                                         *)
(* Strings are sequences of one-character strings, so that trim, split,    *)
(* indexOf and the key=value serialisation are computed as the code        *)
(* computes them.  A SecretMap (a JS object used as a dictionary) is a     *)
(* sequence of [k, v] records with distinct keys, in insertion order.      *)
(***************************************************************************)
EXTENDS Integers, Sequences, FiniteSets, TLC

VARIABLES
    env,         \* process.env: a function from the names that are set to their values
    secrets,     \* this.secrets
    usingSDK,    \* this.usingSDK
    timers,      \* number of setInterval timers this loader has started
    backupFile,  \* content of .env_backup, Absent when there is no file
    pc,          \* where initialize() stands
    sdkError,    \* the error caught by initialize's outer catch
    cliError,    \* the error caught by the catch around loadFromCLI
    backupError, \* the error caught by the catch around loadBackup
    retryError,  \* loadFromCLI: the error of the invocation without --projectId
    thrown,      \* the error initialize() rejected with
    tier,        \* history: how far each tier of initialize() got
    ticks,       \* the polling callbacks in flight
    fired,       \* history: number of polling callbacks started
    last,        \* history: the polling callback that finished last
    initFetch,   \* history: the answer to initialize()'s list-secrets request
    snap,        \* history: the environment, file and map the run started from
    creds,       \* INFISICAL_CLIENT_ID and INFISICAL_CLIENT_SECRET as initSDK reads them
    requests,    \* history: the requests sent to the Infisical API
    calls,       \* history: the CLI invocations of loadFromCLI that have settled
    cliEnvironment, \* this.cliEnvironment
    resolved,    \* history: the last result of getInfisicalEnvironment
    options,     \* the options the run command was given
    run,         \* the run command's action: where it stands, the exit code
    exec         \* one execWithStreaming call: its closure variables and its child

\* the state of the front end and of a single CLI invocation
frontVars == <<cliEnvironment, resolved, options, run, exec>>

vars == <<env, secrets, usingSDK, timers, backupFile, pc, sdkError, cliError,
          backupError, retryError, thrown, tier, ticks, fired, last, initFetch, snap,
          creds, requests, calls, frontVars>>

----------------------------------------------------------------------------
(* Bounds of the model *)

\* poll ticks that may be in flight at the same time
MaxInflight == 1

\* poll ticks fired in one run
MaxTicks == 2

\* entries of a SecretMap given to saveBackup and loadBackup on their own
MaxEntries == 2

----------------------------------------------------------------------------
(* Strings *)

NL == "\n"

\* the value of a file that does not exist, of an unset environment variable:
\* no string, since every element of a string is a single character
Absent == <<"absent">>

NoError == "none"

\* String.prototype.trim strips white space and line terminators
IsWhite(c) == c \in {" ", NL, "\t", "\r"}

RECURSIVE TrimStart(_)
TrimStart(s) ==
    IF s # <<>> /\ IsWhite(Head(s)) THEN TrimStart(Tail(s)) ELSE s

RECURSIVE TrimEnd(_)
TrimEnd(s) ==
    IF s # <<>> /\ IsWhite(s[Len(s)]) THEN TrimEnd(SubSeq(s, 1, Len(s) - 1)) ELSE s

Trim(s) == TrimEnd(TrimStart(s))

\* s.split('\n'): the pieces between the separators, "" gives one empty piece
RECURSIVE Split(_, _)
Split(s, sep) ==
    IF \E i \in 1..Len(s) : s[i] = sep
    THEN LET i == CHOOSE j \in 1..Len(s) : s[j] = sep /\ \A h \in 1..(j - 1) : s[h] # sep
         IN  <<SubSeq(s, 1, i - 1)>> \o Split(SubSeq(s, i + 1, Len(s)), sep)
    ELSE <<s>>

\* IndexOf as lastIndexOf would compute it
LastIndexOf(s, c) ==
    IF \E i \in 1..Len(s) : s[i] = c
    THEN (CHOOSE j \in 1..Len(s) : s[j] = c /\ \A h \in (j + 1)..Len(s) : s[h] # c) - 1
    ELSE -1

\* s.indexOf(c): zero-based position of the first c, -1 when there is none
IndexOf(s, c) ==
    IF \E i \in 1..Len(s) : s[i] = c
    THEN (CHOOSE j \in 1..Len(s) : s[j] = c /\ \A h \in 1..(j - 1) : s[h] # c) - 1
    ELSE -1

StartsWith(s, c) == s # <<>> /\ Head(s) = c

\* parts.join(sep)
RECURSIVE Join(_, _)
Join(parts, sep) ==
    IF parts = <<>> THEN <<>>
    ELSE IF Len(parts) = 1 THEN parts[1]
    ELSE parts[1] \o <<sep>> \o Join(Tail(parts), sep)

----------------------------------------------------------------------------
(* SecretMap: interface Secrets { [key: string]: string } *)

EmptyMap == <<>>

KeysOf(m) == {m[i].k : i \in 1..Len(m)}

HasKey(m, key) == key \in KeysOf(m)

Get(m, key) == m[CHOOSE i \in 1..Len(m) : m[i].k = key].v

\* m[key] = value: an existing key keeps its place, a new key is appended
Put(m, key, value) ==
    IF HasKey(m, key)
    THEN [i \in 1..Len(m) |-> IF m[i].k = key THEN [k |-> key, v |-> value] ELSE m[i]]
    ELSE Append(m, [k |-> key, v |-> value])

\* Object.keys(m).length
Count(m) == Len(m)

\* two SecretMaps with the same entries, whatever the insertion order
Pairs(m) == {m[i] : i \in 1..Len(m)}

SameMap(a, b) == Pairs(a) = Pairs(b)

----------------------------------------------------------------------------
(* The key=value text format of .env_backup and of the CLI's standard output *)

\* the lines loadBackup keeps: not blank, not starting with '#'
RECURSIVE BackupLines(_)
BackupLines(lines) ==
    IF lines = <<>> THEN <<>>
    ELSE (IF Trim(Head(lines)) # <<>> /\ ~StartsWith(Head(lines), "#")
          THEN <<Head(lines)>> ELSE <<>>) \o BackupLines(Tail(lines))

\* the lines loadFromCLI keeps: not blank
RECURSIVE CliLines(_)
CliLines(lines) ==
    IF lines = <<>> THEN <<>>
    ELSE (IF Trim(Head(lines)) # <<>> THEN <<Head(lines)>> ELSE <<>>)
         \o CliLines(Tail(lines))

\* the loop over the lines: split at the first '=', skip a line without '='
\* or with an empty key, a repeated key takes the later value
RECURSIVE ParseLines(_, _)
ParseLines(lines, acc) ==
    IF lines = <<>> THEN acc
    ELSE LET line == Head(lines)
             equalIndex == IndexOf(line, "=")
         IN  IF equalIndex > 0
             THEN ParseLines(Tail(lines),
                             Put(acc, SubSeq(line, 1, equalIndex),
                                 SubSeq(line, equalIndex + 2, Len(line))))
             ELSE ParseLines(Tail(lines), acc)

\* loadBackup's reading of the file content
ParseBackup(envData) == ParseLines(BackupLines(Split(Trim(envData), NL)), EmptyMap)

\* loadFromCLI's reading of the standard output
ParseCLI(stdout) == ParseLines(CliLines(Split(Trim(stdout), NL)), EmptyMap)

\* NothingToSave with the comparison turned round
NothingToSaveNegative(m) == Count(m) < 0

\* saveBackup returns without writing when there is nothing to save
NothingToSave(m) == Count(m) = 0

\* EnvContent with every line terminated, the last one too
EnvContentTerminated(m) ==
    Join([i \in 1..Len(m) |-> m[i].k \o <<"=">> \o m[i].v], NL) \o <<NL>>

\* saveBackup's envContent: key=value per entry, joined by newlines
EnvContent(m) == Join([i \in 1..Len(m) |-> m[i].k \o <<"=">> \o m[i].v], NL)

----------------------------------------------------------------------------
(* The values of the runs explored *)

KA == <<"A">>

KB == <<"B">>

\* the SecretMaps the remote service may answer a list-secrets request with
RemoteMaps ==
    {EmptyMap, <<[k |-> KB, v |-> <<"1">>]>>}
    \cup {<<[k |-> KA, v |-> <<val>>]>> : val \in {"1", "2"}}
    \cup {<<[k |-> KA, v |-> <<val>>], [k |-> KB, v |-> <<"1">>]>> : val \in {"1", "2"}}

\* what `infisical secrets --plain` may print on standard output
CliOutputs == {<<>>, <<"A", "=", "3">>, <<"#", "=", "3", NL, "B", "=", "3">>}

\* what .env_backup may hold when the run starts
InitialBackups == {Absent, <<"A", "=", "0">>, <<"#", "c", NL, "B", "=", "0", NL>>}

\* the environment the process may start with: each name unset, empty or set
InitialEnvs ==
    {e \in UNION {[d -> {<<>>, <<"X">>}] : d \in SUBSET {KA, KB}} : TRUE}

\* what the failing `infisical secrets` may have printed before it exited
FailedOutputs == {<<>>, <<"A", "=", "3">>}

\* INFISICAL_CLIENT_ID, INFISICAL_CLIENT_SECRET: unset, empty, blank, a pair
\* of quotes, a quote after a blank, a quoted identifier
RawCredentials == {Absent, <<>>, <<" ">>, <<"\"", "\"">>, <<" ", "'">>, <<"'", "i", "'">>}

ApiErrors == {"AuthError", "ConfigError", "AuthFailure", "FetchError", "BackupIOError"}

ExecErrors == {"CommandFailed", "LoginRequired"}

Tiers == {"api", "cli", "backup"}

IdleTick == [st |-> "idle", before |-> EmptyMap, fetched |-> EmptyMap, content |-> <<>>]

NoTick == [op |-> "none", ok |-> TRUE, before |-> EmptyMap, fetchOk |-> FALSE,
           fetched |-> EmptyMap, wrote |-> FALSE]

----------------------------------------------------------------------------
(* populateEnv *)

\* process.env[key] as JavaScript reads it: undefined (here Absent) when unset
EnvGet(e, key) == IF key \in DOMAIN e THEN e[key] ELSE Absent

\* !process.env[key]: true for an unset name and for the empty string
Falsy(x) == x = Absent \/ x = <<>>

EnvSet(e, key, value) == [n \in DOMAIN e \cup {key} |-> IF n = key THEN value ELSE e[n]]

RECURSIVE populateEnv(_, _)
populateEnv(e, m) ==
    IF m = <<>> THEN e
    ELSE populateEnv(IF Falsy(EnvGet(e, Head(m).k)) THEN EnvSet(e, Head(m).k, Head(m).v)
                     ELSE e,
                     Tail(m))

----------------------------------------------------------------------------
(* Construction *)

NoOptions == [env |-> Absent, path |-> Absent]

NoRun == [st |-> "none", command |-> FALSE, child |-> "none", childCode |-> -1,
          exitCode |-> -1]

NoExec == [st |-> "none", out |-> <<>>, errOut |-> <<>>, code |-> "none",
           stdout |-> <<>>, stderr |-> <<>>, settled |-> FALSE, killed |-> FALSE,
           result |-> "pending", error |-> NoError]

\* a loader constructed with the project root only, outside the run command
LibraryUse ==
    /\ cliEnvironment = Absent
    /\ resolved = Absent
    /\ options = NoOptions
    /\ run = NoRun
    /\ exec = NoExec

\* the fields of a new SecretsLoader and the process state it finds
Fresh ==
    /\ env \in InitialEnvs
    /\ backupFile \in InitialBackups
    /\ secrets = EmptyMap
    /\ usingSDK = FALSE
    /\ timers = 0
    /\ sdkError = NoError
    /\ cliError = NoError
    /\ backupError = NoError
    /\ retryError = NoError
    /\ thrown = NoError
    /\ tier = [t \in Tiers |-> "idle"]
    /\ ticks = [i \in 1..MaxInflight |-> IdleTick]
    /\ fired = 0
    /\ last = NoTick
    /\ initFetch = [ok |-> FALSE, map |-> EmptyMap]
    /\ snap = [env |-> env, backup |-> backupFile, secrets |-> EmptyMap]
    /\ creds \in [id : RawCredentials, secret : RawCredentials]
    /\ requests = {}
    /\ calls = <<>>

Init ==
    /\ Fresh
    /\ pc = "new"
    /\ LibraryUse

----------------------------------------------------------------------------
(* initialize(): the SDK tier *)

\* startPolling: one more setInterval timer, never cleared
startPolling(n) == n + 1

\* CatchSdkError going straight to loadBackup
CatchSdkErrorSkipsCli(e) ==
    /\ sdkError' = e
    /\ pc' = "backup"
    /\ tier' = [tier EXCEPT !["api"] = "failed", !["backup"] = "running"]
    /\ cliError' = cliError

\* The outer catch of initialize(): sdkError is bound and loadFromCLI is
\* called.  loadFromCLI reads the project id before its own try block, so a
\* missing or invalid .infisical.json rejects it at once and initialize()
\* goes on to loadBackup; otherwise the first CLI invocation is spawned.
CatchSdkError(e) ==
    /\ sdkError' = e
    /\ \E configOk \in BOOLEAN :
          IF configOk
          THEN /\ pc' = "cli1"
               /\ tier' = [tier EXCEPT !["api"] = "failed", !["cli"] = "running"]
               /\ cliError' = cliError
          ELSE /\ pc' = "backup"
               /\ tier' = [tier EXCEPT !["api"] = "failed", !["cli"] = "failed",
                                       !["backup"] = "running"]
               /\ cliError' = "ConfigError"

\* The end of the try block of initialize() and the populateEnv after it
SdkActive(file) ==
    /\ backupFile' = file
    /\ usingSDK' = TRUE
    /\ timers' = startPolling(timers)
    /\ tier' = [tier EXCEPT !["api"] = "ok"]
    /\ env' = populateEnv(env, secrets')
    /\ pc' = "done"
    /\ UNCHANGED <<sdkError, cliError>>

\* Unquote leaving the quotes in place
UnquoteKeeps(s) == s

\* value.replace(/^["']|["']$/g, ''): a quote at the start and a quote at
\* the end are removed
Unquote(s) ==
    LET t == IF s # <<>> /\ Head(s) \in {"\"", "'"} THEN Tail(s) ELSE s
    IN  IF t # <<>> /\ t[Len(t)] \in {"\"", "'"} THEN SubSeq(t, 1, Len(t) - 1) ELSE t

\* !value for a credential: unset or the empty string
Missing(raw) == raw = Absent \/ raw = <<>>

\* the two checks of initSDK: the raw values, then the values trimmed and unquoted
CredentialsOk(c) ==
    /\ ~Missing(c.id)
    /\ ~Missing(c.secret)
    /\ ~Missing(Unquote(Trim(c.id)))
    /\ ~Missing(Unquote(Trim(c.secret)))

\* initialize() is called: initSDK checks the credentials, reads the project
\* id and starts the universal-auth login
initialize ==
    /\ pc = "new"
    /\ \E configOk \in BOOLEAN :
          IF ~CredentialsOk(creds)
          THEN CatchSdkError("AuthError") /\ UNCHANGED requests
          ELSE IF ~configOk
          THEN CatchSdkError("ConfigError") /\ UNCHANGED requests
          ELSE /\ pc' = "login"
               /\ requests' = requests \cup {"login"}
               /\ tier' = [tier EXCEPT !["api"] = "running"]
               /\ UNCHANGED <<sdkError, cliError>>
    /\ UNCHANGED <<env, secrets, usingSDK, timers, backupFile, backupError,
                   retryError, thrown, ticks, fired, last, initFetch, snap, frontVars,
                   creds, calls>>

\* the login settles; on success loadSecrets reads the project id and sends
\* the list-secrets request
initSDK ==
    /\ pc = "login"
    /\ \E loginOk \in BOOLEAN, configOk \in BOOLEAN :
          IF ~loginOk THEN CatchSdkError("AuthFailure") /\ UNCHANGED requests
          ELSE IF ~configOk THEN CatchSdkError("ConfigError") /\ UNCHANGED requests
          ELSE /\ pc' = "fetch"
               /\ requests' = requests \cup {"listSecrets"}
               /\ UNCHANGED <<tier, sdkError, cliError>>
    /\ UNCHANGED <<env, secrets, usingSDK, timers, backupFile, backupError,
                   retryError, thrown, ticks, fired, last, initFetch, snap, frontVars,
                   creds, calls>>

\* the list-secrets request of initialize() settles; on success the map is
\* replaced and saveBackup runs up to its file write (no write for an empty map)
loadSecrets ==
    /\ pc = "fetch"
    /\ \/ /\ CatchSdkError("FetchError")
          /\ UNCHANGED <<env, secrets, usingSDK, timers, backupFile, initFetch>>
       \/ \E m \in RemoteMaps :
             /\ secrets' = m
             /\ initFetch' = [ok |-> TRUE, map |-> m]
             /\ IF NothingToSave(m)
                THEN SdkActive(backupFile)
                ELSE /\ pc' = "save"
                     /\ UNCHANGED <<env, usingSDK, timers, backupFile, tier,
                                    sdkError, cliError>>
    /\ UNCHANGED <<backupError, retryError, thrown, ticks, fired, last, snap, frontVars,
                   creds, requests, calls>>

\* the file write of initialize()'s saveBackup settles
saveBackup ==
    /\ pc = "save"
    /\ \/ /\ UNCHANGED secrets
          /\ SdkActive(EnvContent(secrets))
       \/ /\ CatchSdkError("BackupIOError")
          /\ UNCHANGED <<env, secrets, usingSDK, timers, backupFile>>
    /\ UNCHANGED <<backupError, retryError, thrown, ticks, fired, last, initFetch, snap, frontVars,
                   creds, requests, calls>>

----------------------------------------------------------------------------
(* initialize(): the CLI tier and the backup tier *)

\* an invocation of `infisical secrets` settled: the command line it was
\* started with, what it printed, and the error execWithStreaming rejected with
Invoked(cmd, out, err) ==
    calls' = Append(calls, [cmd |-> cmd, out |-> out, err |-> err])

\* what an invocation that ends in error e may have printed
PrintedBefore(e) == IF e = "CommandFailed" THEN FailedOutputs ELSE {<<>>}

\* loadFromCLI parses the standard output of the invocation that resolved,
\* and initialize() publishes the map
CliParsed(stdout) ==
    /\ secrets' = ParseCLI(stdout)
    /\ env' = populateEnv(env, secrets')
    /\ tier' = [tier EXCEPT !["cli"] = "ok"]
    /\ pc' = "done"
    /\ UNCHANGED <<cliError, retryError>>

\* loadFromCLI1 saving the map it parsed to .env_backup
loadFromCLI1SavesBackup ==
    /\ pc = "cli1"
    /\ \/ \E out \in CliOutputs :
             /\ CliParsed(out)
             /\ Invoked("projectId", out, NoError)
             /\ backupFile' = IF NothingToSave(secrets') THEN backupFile
                              ELSE EnvContent(secrets')
       \/ \E e \in ExecErrors : \E out \in PrintedBefore(e) :
             /\ pc' = "cli2"
             /\ Invoked("projectId", out, e)
             /\ UNCHANGED <<secrets, env, tier, cliError, retryError, backupFile>>
    /\ UNCHANGED <<usingSDK, timers, sdkError, backupError, thrown,
                   ticks, fired, last, initFetch, snap, frontVars,
                   creds, requests>>

\* the invocation with --projectId settles; a rejection starts the retry
loadFromCLI1 ==
    /\ pc = "cli1"
    /\ \/ \E out \in CliOutputs : CliParsed(out) /\ Invoked("projectId", out, NoError)
       \/ \E e \in ExecErrors : \E out \in PrintedBefore(e) :
             /\ pc' = "cli2"
             /\ Invoked("projectId", out, e)
             /\ UNCHANGED <<secrets, env, tier, cliError, retryError>>
    /\ UNCHANGED <<usingSDK, timers, backupFile, sdkError, backupError, thrown,
                   ticks, fired, last, initFetch, snap, frontVars,
                   creds, requests>>

\* loadFromCLI2 retrying the same command once more before the debug command
loadFromCLI2RetriesAgain ==
    /\ pc = "cli2"
    /\ \/ \E out \in CliOutputs : CliParsed(out) /\ Invoked("plain", out, NoError)
       \/ \E e \in ExecErrors : \E out \in PrintedBefore(e) :
             /\ Invoked("plain", out, e)
             /\ retryError' = e
             /\ pc' = IF Len(calls) = 1 THEN "cli2" ELSE "cli3"
             /\ UNCHANGED <<secrets, env, tier, cliError>>
    /\ UNCHANGED <<usingSDK, timers, backupFile, sdkError, backupError, thrown,
                   ticks, fired, last, initFetch, snap, frontVars,
                   creds, requests>>

\* the invocation without --projectId settles; a rejection starts the
\* invocation without --silent
loadFromCLI2 ==
    /\ pc = "cli2"
    /\ \/ \E out \in CliOutputs : CliParsed(out) /\ Invoked("plain", out, NoError)
       \/ \E e \in ExecErrors : \E out \in PrintedBefore(e) :
             /\ Invoked("plain", out, e)
             /\ retryError' = e
             /\ pc' = "cli3"
             /\ UNCHANGED <<secrets, env, tier, cliError>>
    /\ UNCHANGED <<usingSDK, timers, backupFile, sdkError, backupError, thrown,
                   ticks, fired, last, initFetch, snap, frontVars,
                   creds, requests>>

\* the invocation without --silent settles.  When it rejects, retryError is
\* thrown to loadFromCLI's catch, which returns normally when this.secrets
\* is not empty and rethrows otherwise; initialize() then calls loadBackup.
loadFromCLI3 ==
    /\ pc = "cli3"
    /\ \/ \E out \in CliOutputs : CliParsed(out) /\ Invoked("debug", out, NoError)
       \/ \E e \in ExecErrors : \E out \in PrintedBefore(e) :
             /\ Invoked("debug", out, e)
             /\ IF Count(secrets) > 0
                THEN /\ env' = populateEnv(env, secrets)
                     /\ tier' = [tier EXCEPT !["cli"] = "ok"]
                     /\ pc' = "done"
                     /\ UNCHANGED <<secrets, cliError, retryError>>
                ELSE /\ cliError' = retryError
                     /\ tier' = [tier EXCEPT !["cli"] = "failed", !["backup"] = "running"]
                     /\ pc' = "backup"
                     /\ UNCHANGED <<secrets, env, retryError>>
    /\ UNCHANGED <<usingSDK, timers, backupFile, sdkError, backupError, thrown,
                   ticks, fired, last, initFetch, snap, frontVars,
                   creds, requests>>

\* BackupFailed rethrowing the error it caught
BackupFailedThrowsOwn(e) ==
    /\ backupError' = e
    /\ thrown' = e
    /\ tier' = [tier EXCEPT !["backup"] = "failed"]
    /\ pc' = "failed"
    /\ UNCHANGED <<secrets, env>>

\* loadBackup fails: initialize() rethrows the error of the SDK tier
BackupFailed(e) ==
    /\ backupError' = e
    /\ thrown' = sdkError
    /\ tier' = [tier EXCEPT !["backup"] = "failed"]
    /\ pc' = "failed"
    /\ UNCHANGED <<secrets, env>>

\* fs.access and fs.readFile of .env_backup settle
loadBackup ==
    /\ pc = "backup"
    /\ IF backupFile = Absent
       THEN BackupFailed("BackupNotFound")
       ELSE \/ BackupFailed("BackupUnavailable")
            \/ /\ secrets' = ParseBackup(backupFile)
               /\ env' = populateEnv(env, secrets')
               /\ tier' = [tier EXCEPT !["backup"] = "ok"]
               /\ pc' = "done"
               /\ UNCHANGED <<backupError, thrown>>
    /\ UNCHANGED <<usingSDK, timers, backupFile, sdkError, cliError, retryError,
                   ticks, fired, last, initFetch, snap, frontVars,
                   creds, requests, calls>>

----------------------------------------------------------------------------
(* The polling callback of startPolling *)

\* the callback finished: its slot is free again and `last` describes it
TickEnds(i, rec) ==
    /\ ticks' = [ticks EXCEPT ![i] = IdleTick]
    /\ last' = rec

\* a timer fires: the callback calls loadSecrets, which reads the project id
\* and sends the list-secrets request; a failure is caught by the callback
pollFire ==
    /\ timers > 0
    /\ fired < MaxTicks
    /\ \E i \in 1..MaxInflight :
          /\ ticks[i].st = "idle"
          /\ \A j \in 1..(i - 1) : ticks[j].st # "idle"
          /\ \E configOk \in BOOLEAN :
                IF configOk
                THEN /\ ticks' = [ticks EXCEPT ![i] = [IdleTick EXCEPT !.st = "fetch",
                                                                    !.before = secrets]]
                     /\ UNCHANGED last
                ELSE /\ ticks' = ticks
                     /\ last' = [NoTick EXCEPT !.op = "tick", !.ok = FALSE,
                                               !.before = secrets]
    /\ fired' = fired + 1
    /\ UNCHANGED <<env, secrets, usingSDK, timers, backupFile, pc, sdkError, cliError,
                   backupError, retryError, thrown, tier, initFetch, snap, frontVars,
                   creds, requests, calls>>

\* the list-secrets request of a callback settles.  On success this.secrets
\* is replaced, then saveBackup either returns (empty map) and populateEnv
\* runs, or builds the file content from this.secrets and starts the write.
pollLoadSecrets ==
    /\ \E i \in 1..MaxInflight :
          /\ ticks[i].st = "fetch"
          /\ \/ /\ TickEnds(i, [NoTick EXCEPT !.op = "tick", !.ok = FALSE,
                                              !.before = ticks[i].before])
                /\ UNCHANGED <<secrets, env>>
             \/ \E m \in RemoteMaps :
                   /\ secrets' = m
                   /\ IF NothingToSave(m)
                      THEN /\ env' = populateEnv(env, m)
                           /\ TickEnds(i, [NoTick EXCEPT !.op = "tick",
                                                         !.before = ticks[i].before,
                                                         !.fetchOk = TRUE, !.fetched = m])
                      ELSE /\ ticks' = [ticks EXCEPT ![i] = [@ EXCEPT !.st = "write",
                                                                      !.fetched = m,
                                                                      !.content = EnvContent(m)]]
                           /\ UNCHANGED <<env, last>>
    /\ UNCHANGED <<usingSDK, timers, backupFile, pc, sdkError, cliError, backupError,
                   retryError, thrown, tier, fired, initFetch, snap, frontVars,
                   creds, requests, calls>>

\* the file write of a callback's saveBackup settles; on success populateEnv
\* publishes this.secrets, on failure the callback's catch logs the error
pollSaveBackup ==
    /\ \E i \in 1..MaxInflight :
          /\ ticks[i].st = "write"
          /\ \/ /\ backupFile' = ticks[i].content
                /\ env' = populateEnv(env, secrets)
                /\ TickEnds(i, [NoTick EXCEPT !.op = "tick", !.before = ticks[i].before,
                                              !.fetchOk = TRUE,
                                              !.fetched = ticks[i].fetched,
                                              !.wrote = TRUE])
             \/ /\ TickEnds(i, [NoTick EXCEPT !.op = "tick", !.ok = FALSE,
                                              !.before = ticks[i].before,
                                              !.fetchOk = TRUE,
                                              !.fetched = ticks[i].fetched])
                /\ UNCHANGED <<backupFile, env>>
    /\ UNCHANGED <<secrets, usingSDK, timers, pc, sdkError, cliError, backupError,
                   retryError, thrown, tier, fired, initFetch, snap, frontVars,
                   creds, requests, calls>>

----------------------------------------------------------------------------

Next ==
    \/ initialize
    \/ initSDK
    \/ loadSecrets
    \/ saveBackup
    \/ loadFromCLI1
    \/ loadFromCLI2
    \/ loadFromCLI3
    \/ loadBackup
    \/ pollFire
    \/ pollLoadSecrets
    \/ pollSaveBackup

Spec == Init /\ [][Next]_vars

----------------------------------------------------------------------------
(* A loader whose initialize() is called again after it settled *)

\* the number of setInterval timers up to which a further call is explored
MaxTimers == 2

\* initialize() has settled and the owner of the loader calls it again: the
\* instance keeps its fields, its timers and the process state; what the
\* model records about the previous call is forgotten
reinitialize ==
    /\ pc \in {"done", "failed"}
    /\ timers < MaxTimers
    /\ pc' = "new"
    /\ sdkError' = NoError
    /\ cliError' = NoError
    /\ backupError' = NoError
    /\ retryError' = NoError
    /\ thrown' = NoError
    /\ tier' = [t \in Tiers |-> "idle"]
    /\ initFetch' = [ok |-> FALSE, map |-> EmptyMap]
    /\ calls' = <<>>
    /\ UNCHANGED <<env, secrets, usingSDK, timers, backupFile, ticks, fired, last,
                   snap, frontVars, creds, requests>>

\* the calls of initialize() alone: the timer callbacks, which neither set
\* nor clear a timer, are left to Next
NextReinit ==
    \/ initialize
    \/ initSDK
    \/ loadSecrets
    \/ saveBackup
    \/ loadFromCLI1
    \/ loadFromCLI2
    \/ loadFromCLI3
    \/ loadBackup
    \/ reinitialize

\* a project without a backup file; both credentials set alike
InitReinit ==
    /\ Init
    /\ backupFile = Absent
    /\ creds.id = creds.secret

SpecReinit == InitReinit /\ [][NextReinit]_vars

----------------------------------------------------------------------------
(* The run command of the command line front end *)

NODE_ENV == <<"NODE_ENV">>

INFISICAL_ENVIRONMENT == <<"INFISICAL_ENVIRONMENT">>

\* what the loader and the process hold beside the front end's own state
loaderVars == <<secrets, usingSDK, timers, backupFile, sdkError, cliError, backupError,
                retryError, thrown, tier, ticks, fired, last, initFetch, snap,
                creds, requests, calls>>

\* `pandora-jar run -- cmd` and `pandora-jar run --env prod --path / -- cmd`
RunOptions == {NoOptions, [env |-> <<"p", "r", "o", "d">>, path |-> <<"/">>]}

\* the exit codes a child may end with; a child ended by a signal has none
ChildCodes == {0, 2}

\* the process has started and commander is about to call the action; argv
\* holds a command after `--` or not
InitRun ==
    /\ Fresh
    /\ pc = "start"
    /\ cliEnvironment = Absent
    /\ resolved = Absent
    /\ options \in RunOptions
    /\ run \in {[NoRun EXCEPT !.st = "start", !.command = c] : c \in BOOLEAN}
    /\ exec = NoExec

\* the action up to the call of initialize(): --env is written to NODE_ENV
\* and the loader is constructed with --path as its second argument
runCommand ==
    /\ pc = "start"
    /\ run.st = "start"
    /\ env' = IF Falsy(options.env) THEN env ELSE EnvSet(env, NODE_ENV, options.env)
    /\ cliEnvironment' = options.path
    /\ run' = [run EXCEPT !.st = "loading"]
    /\ pc' = "new"
    /\ UNCHANGED <<loaderVars, resolved, options, exec>>

\* runSpawn not waiting for initialize() to settle
runSpawnEarly ==
    /\ run.st = "loading"
    /\ pc \notin {"start", "new"}
    /\ run' = [run EXCEPT !.st = "spawned", !.child = "running"]
    /\ UNCHANGED <<env, pc, loaderVars, cliEnvironment, resolved, options, exec>>

\* initialize() resolved: without a command after `--` the process exits
\* with code 1, otherwise the command is spawned with process.env
runSpawn ==
    /\ run.st = "loading"
    /\ pc = "done"
    /\ run' = IF run.command
              THEN [run EXCEPT !.st = "spawned", !.child = "running"]
              ELSE [run EXCEPT !.st = "exited", !.exitCode = 1]
    /\ UNCHANGED <<env, pc, loaderVars, cliEnvironment, resolved, options, exec>>

\* initialize() rejected: the catch block exits with code 1
runCatch ==
    /\ run.st = "loading"
    /\ pc = "failed"
    /\ run' = [run EXCEPT !.st = "exited", !.exitCode = 1]
    /\ UNCHANGED <<env, pc, loaderVars, cliEnvironment, resolved, options, exec>>

\* child.on('error'): the command could not be executed
childError ==
    /\ run.st = "spawned"
    /\ run.child = "running"
    /\ run' = [run EXCEPT !.st = "exited", !.child = "error", !.exitCode = 1]
    /\ UNCHANGED <<env, pc, loaderVars, cliEnvironment, resolved, options, exec>>

\* child.on('exit'): process.exit(code || 0), code being null when the child
\* was ended by a signal
childExit ==
    /\ run.st = "spawned"
    /\ run.child = "running"
    /\ \/ \E code \in ChildCodes :
             run' = [run EXCEPT !.st = "exited", !.child = "exited", !.childCode = code,
                                !.exitCode = IF code = 0 THEN 0 ELSE code]
       \/ run' = [run EXCEPT !.st = "exited", !.child = "signalled", !.exitCode = 0]
    /\ UNCHANGED <<env, pc, loaderVars, cliEnvironment, resolved, options, exec>>

\* the run command from its start to the exit of the process
NextRun ==
    \/ runCommand
    \/ initialize
    \/ initSDK
    \/ loadSecrets
    \/ saveBackup
    \/ loadFromCLI1
    \/ loadFromCLI2
    \/ loadFromCLI3
    \/ loadBackup
    \/ runSpawn
    \/ runCatch
    \/ childError
    \/ childExit

SpecRun == InitRun /\ [][NextRun]_vars

----------------------------------------------------------------------------
(* getInfisicalEnvironment *)

UpperCase == <<"A", "B", "C", "D", "E", "F", "G", "H", "I", "J", "K", "L", "M",
               "N", "O", "P", "Q", "R", "S", "T", "U", "V", "W", "X", "Y", "Z">>

LowerCase == <<"a", "b", "c", "d", "e", "f", "g", "h", "i", "j", "k", "l", "m",
               "n", "o", "p", "q", "r", "s", "t", "u", "v", "w", "x", "y", "z">>

\* s.toLowerCase()
ToLowerCase(s) ==
    [i \in 1..Len(s) |->
        IF \E n \in 1..Len(UpperCase) : UpperCase[n] = s[i]
        THEN LowerCase[CHOOSE n \in 1..Len(UpperCase) : UpperCase[n] = s[i]]
        ELSE s[i]]

development == <<"d", "e", "v", "e", "l", "o", "p", "m", "e", "n", "t">>

dev == <<"d", "e", "v">>

staging == <<"s", "t", "a", "g", "i", "n", "g">>

production == <<"p", "r", "o", "d", "u", "c", "t", "i", "o", "n">>

prod == <<"p", "r", "o", "d">>

\* the switch over nodeEnv
StageSwitch(nodeEnv) ==
    CASE nodeEnv = development -> development
      [] nodeEnv = dev -> development
      [] nodeEnv = staging -> staging
      [] nodeEnv = production -> production
      [] nodeEnv = prod -> production
      [] OTHER -> development

\* getInfisicalEnvironment() of a loader constructed with `cli`, in a
\* process whose environment is e
getInfisicalEnvironment(cli, e) ==
    LET explicitEnv == EnvGet(e, INFISICAL_ENVIRONMENT)
        stage == EnvGet(e, NODE_ENV)
    IN  IF ~Falsy(cli) /\ Trim(cli) # <<>> THEN Trim(cli)
        ELSE IF ~Falsy(explicitEnv) /\ Trim(explicitEnv) # <<>> THEN Trim(explicitEnv)
        ELSE StageSwitch(ToLowerCase(IF Falsy(stage) THEN <<>> ELSE stage))

\* NODE_ENV and INFISICAL_ENVIRONMENT as the process may find them
StageValues ==
    {Absent, prod, <<"P", "R", "O", "D">>, <<"S", "t", "a", "g", "i", "n", "g">>,
     <<"p", "r", "o", "d", " ">>, dev, <<"q", "a">>}

ExplicitValues == {Absent, <<" ">>, <<"q", "a">>}

StageEnvs ==
    {e \in UNION {[d -> StageValues \cup ExplicitValues] :
                     d \in SUBSET {NODE_ENV, INFISICAL_ENVIRONMENT}} :
        /\ \A n \in DOMAIN e : e[n] # Absent
        /\ NODE_ENV \in DOMAIN e => e[NODE_ENV] \in StageValues
        /\ INFISICAL_ENVIRONMENT \in DOMAIN e => e[INFISICAL_ENVIRONMENT] \in ExplicitValues}

\* the second argument a program may construct the loader with
CliEnvironments == {Absent, <<>>, <<" ">>, <<" ", "b", "e", "t", "a", " ">>}

\* --env and --path as the run command may be given them
EnvRunOptions ==
    [env : {Absent, <<>>, prod, <<"b", "e", "t", "a">>}, path : {Absent, <<"/">>}]

\* a process about to run the run command, or a loader a program constructed
InitEnv ==
    /\ env \in StageEnvs
    /\ backupFile = Absent
    /\ secrets = EmptyMap
    /\ usingSDK = FALSE
    /\ timers = 0
    /\ sdkError = NoError
    /\ cliError = NoError
    /\ backupError = NoError
    /\ retryError = NoError
    /\ thrown = NoError
    /\ tier = [t \in Tiers |-> "idle"]
    /\ ticks = [i \in 1..MaxInflight |-> IdleTick]
    /\ fired = 0
    /\ last = NoTick
    /\ initFetch = [ok |-> FALSE, map |-> EmptyMap]
    /\ snap = [env |-> env, backup |-> backupFile, secrets |-> EmptyMap]
    /\ creds = [id |-> Absent, secret |-> Absent]
    /\ requests = {}
    /\ calls = <<>>
    /\ resolved = Absent
    /\ exec = NoExec
    /\ \/ /\ pc = "start"
          /\ options \in EnvRunOptions
          /\ cliEnvironment = Absent
          /\ run = [NoRun EXCEPT !.st = "start", !.command = TRUE]
       \/ /\ pc = "new"
          /\ options = NoOptions
          /\ cliEnvironment \in CliEnvironments
          /\ run = NoRun

\* the loader asks for the environment to fetch from
resolveEnvironment ==
    /\ pc = "new"
    /\ resolved = Absent
    /\ resolved' = getInfisicalEnvironment(cliEnvironment, env)
    /\ UNCHANGED <<env, pc, loaderVars, cliEnvironment, options, run, exec>>

NextEnv ==
    \/ runCommand
    \/ resolveEnvironment

SpecEnv == InitEnv /\ [][NextEnv]_vars

----------------------------------------------------------------------------
(* execWithStreaming: one invocation of the CLI *)

\* 'No valid login session found, triggering login flow'
LoginPhrase ==
    <<"N", "o", " ", "v", "a", "l", "i", "d", " ", "l", "o", "g", "i", "n",
      " ", "s", "e", "s", "s", "i", "o", "n", " ", "f", "o", "u", "n", "d",
      ",", " ", "t", "r", "i", "g", "g", "e", "r", "i", "n", "g", " ", "l",
      "o", "g", "i", "n", " ", "f", "l", "o", "w">>

\* data.includes(phrase)
Includes(data, phrase) ==
    \E i \in 1..(Len(data) - Len(phrase) + 1) :
       SubSeq(data, i, i + Len(phrase) - 1) = phrase

\* what the child may write to its standard output and to its standard error
StdoutStreams == {<<>>, <<"A", "=", "3", NL>>, LoginPhrase, <<"A", "=", "3", NL>> \o LoginPhrase}

StderrStreams == {<<>>, <<"!">>, LoginPhrase \o <<NL>>}

\* the exit code the child ends with when left alone; none after a signal
ExitCodes == {"0", "1", "null"}

\* exec(command, options) returned the child and the listeners are attached
InitExec ==
    /\ Fresh
    /\ env = <<>>
    /\ backupFile = Absent
    /\ creds = [id |-> Absent, secret |-> Absent]
    /\ pc = "cli1"
    /\ cliEnvironment = Absent
    /\ resolved = Absent
    /\ options = NoOptions
    /\ run = NoRun
    /\ exec \in {[NoExec EXCEPT !.st = "running", !.out = o, !.errOut = e, !.code = c] :
                    o \in StdoutStreams, e \in StderrStreams, c \in ExitCodes}

\* settle(result, isError): the first call decides the promise and kills
\* the child if it is still there to be killed
settle(x, result, error) ==
    IF x.settled THEN x
    ELSE [x EXCEPT !.settled = TRUE, !.killed = (x.st = "running"),
                   !.result = result, !.error = error]

\* a 'data' listener: the chunk is appended, then searched for the phrase
onData(x, data) ==
    IF Includes(data, LoginPhrase) THEN settle(x, "rejected", "LoginRequired") ELSE x

\* the next chunk of standard output arrives, of any length
stdoutData ==
    /\ exec.st = "running"
    /\ exec.out # <<>>
    /\ \E n \in 1..Len(exec.out) :
          LET data == SubSeq(exec.out, 1, n)
          IN  exec' = onData([exec EXCEPT !.stdout = @ \o data,
                                         !.out = SubSeq(@, n + 1, Len(@))], data)
    /\ UNCHANGED <<env, pc, loaderVars, cliEnvironment, resolved, options, run>>

\* the next chunk of standard error arrives, of any length
stderrData ==
    /\ exec.st = "running"
    /\ exec.errOut # <<>>
    /\ \E n \in 1..Len(exec.errOut) :
          LET data == SubSeq(exec.errOut, 1, n)
          IN  exec' = onData([exec EXCEPT !.stderr = @ \o data,
                                         !.errOut = SubSeq(@, n + 1, Len(@))], data)
    /\ UNCHANGED <<env, pc, loaderVars, cliEnvironment, resolved, options, run>>

\* 'close': the child has ended and its streams are closed; a killed child
\* ends without an exit code, whatever it had left to write
onClose ==
    /\ exec.st = "running"
    /\ exec.killed \/ (exec.out = <<>> /\ exec.errOut = <<>>)
    /\ LET code == IF exec.killed THEN "null" ELSE exec.code
           x == [exec EXCEPT !.st = "closed", !.code = code, !.out = <<>>, !.errOut = <<>>]
       IN  exec' = IF code # "0" /\ code # "null"
                   THEN settle(x, "rejected", "CommandFailed")
                   ELSE settle(x, "resolved", NoError)
    /\ UNCHANGED <<env, pc, loaderVars, cliEnvironment, resolved, options, run>>

\* 'error': the child could not be spawned
onError ==
    /\ exec.st = "running"
    /\ exec.stdout = <<>>
    /\ exec.stderr = <<>>
    /\ exec' = settle([exec EXCEPT !.st = "closed", !.out = <<>>, !.errOut = <<>>],
                      "rejected", "SpawnError")
    /\ UNCHANGED <<env, pc, loaderVars, cliEnvironment, resolved, options, run>>

NextExec ==
    \/ stdoutData
    \/ stderrData
    \/ onClose
    \/ onError

SpecExec == InitExec /\ [][NextExec]_vars

----------------------------------------------------------------------------
(* The two readers of key=value text: loadFromCLI and loadBackup *)

\* the length up to which texts are explored
MaxText == 4

TextChars == {"A", "=", "#", " ", NL}

RECURSIVE TextsOf(_)
TextsOf(n) ==
    IF n = 0 THEN {<<>>}
    ELSE LET shorter == TextsOf(n - 1)
         IN  shorter \cup {Append(t, c) : t \in {u \in shorter : Len(u) = n - 1},
                                          c \in TextChars}

Texts == TextsOf(MaxText)

\* one text, printed by an invocation that resolved and held by .env_backup
InitParse ==
    /\ \E t \in Texts :
          /\ backupFile = t
          /\ exec = [NoExec EXCEPT !.st = "closed", !.code = "0", !.stdout = t,
                                   !.settled = TRUE, !.result = "resolved"]
    /\ env = <<>>
    /\ secrets = EmptyMap
    /\ usingSDK = FALSE
    /\ timers = 0
    /\ sdkError = NoError
    /\ cliError = NoError
    /\ backupError = NoError
    /\ retryError = NoError
    /\ thrown = NoError
    /\ tier = [t \in Tiers |-> "idle"]
    /\ ticks = [i \in 1..MaxInflight |-> IdleTick]
    /\ fired = 0
    /\ last = NoTick
    /\ initFetch = [ok |-> FALSE, map |-> EmptyMap]
    /\ snap = [env |-> env, backup |-> backupFile, secrets |-> EmptyMap]
    /\ creds = [id |-> Absent, secret |-> Absent]
    /\ requests = {}
    /\ calls = <<>>
    /\ pc = "text"
    /\ cliEnvironment = Absent
    /\ resolved = Absent
    /\ options = NoOptions
    /\ run = NoRun

\* loadFromCLI reads the standard output of the invocation
parseStdout ==
    /\ pc = "text"
    /\ secrets' = ParseCLI(exec.stdout)
    /\ pc' = "stdoutParsed"
    /\ UNCHANGED <<env, usingSDK, timers, backupFile, sdkError, cliError, backupError,
                   retryError, thrown, tier, ticks, fired, last, initFetch, snap,
                   creds, requests, calls, frontVars>>

\* loadBackup of a second loader reads the file; the map it gets is kept
\* beside the first loader's
parseBackupFile ==
    /\ pc = "stdoutParsed"
    /\ snap' = [snap EXCEPT !.secrets = ParseBackup(backupFile)]
    /\ pc' = "parsed"
    /\ UNCHANGED <<env, secrets, usingSDK, timers, backupFile, sdkError, cliError,
                   backupError, retryError, thrown, tier, ticks, fired, last, initFetch,
                   creds, requests, calls, frontVars>>

NextParse ==
    \/ parseStdout
    \/ parseBackupFile

SpecParse == InitParse /\ [][NextParse]_vars

----------------------------------------------------------------------------
(* The environment name of the fetches of a loader in SDK mode *)

\* SecretMaps that define, or do not define, a name getInfisicalEnvironment reads
StageMaps ==
    {EmptyMap,
     <<[k |-> KA, v |-> <<"1">>]>>,
     <<[k |-> INFISICAL_ENVIRONMENT, v |-> <<"q", "a">>]>>,
     <<[k |-> KA, v |-> <<"1">>], [k |-> NODE_ENV, v |-> prod]>>}

\* a loader with valid credentials, constructed with or without an
\* environment, in a process with any stage variables
InitFetches ==
    /\ env \in StageEnvs
    /\ backupFile = Absent
    /\ secrets = EmptyMap
    /\ usingSDK = FALSE
    /\ timers = 0
    /\ sdkError = NoError
    /\ cliError = NoError
    /\ backupError = NoError
    /\ retryError = NoError
    /\ thrown = NoError
    /\ tier = [t \in Tiers |-> "idle"]
    /\ ticks = [i \in 1..MaxInflight |-> IdleTick]
    /\ fired = 0
    /\ last = NoTick
    /\ initFetch = [ok |-> FALSE, map |-> EmptyMap]
    /\ snap = [env |-> env, backup |-> backupFile, secrets |-> EmptyMap]
    /\ creds = [id |-> <<"i">>, secret |-> <<"i">>]
    /\ requests = {}
    /\ calls = <<>>
    /\ pc = "new"
    /\ cliEnvironment \in {Absent, <<" ", "b", "e", "t", "a", " ">>}
    /\ resolved = Absent
    /\ options = NoOptions
    /\ run = NoRun
    /\ exec = NoExec

\* loadSecrets up to its await: the environment is resolved and the
\* list-secrets request for it is sent
listSecretsFor(op) ==
    /\ resolved' = getInfisicalEnvironment(cliEnvironment, env)
    /\ requests' = requests \cup {[op |-> op, environment |-> resolved']}

\* initialize(): login succeeded and loadSecrets sends its request
fetchInitial ==
    /\ pc = "new"
    /\ listSecretsFor("initialize")
    /\ tier' = [tier EXCEPT !["api"] = "running"]
    /\ pc' = "fetch"
    /\ UNCHANGED <<env, secrets, usingSDK, timers, backupFile, sdkError, cliError,
                   backupError, retryError, thrown, ticks, fired, last, initFetch, snap,
                   creds, calls, cliEnvironment, options, run, exec>>

\* the answer arrives: the map is replaced, saved, polling starts and
\* populateEnv publishes the map
fetchedInitial ==
    /\ pc = "fetch"
    /\ \E m \in StageMaps :
          /\ secrets' = m
          /\ initFetch' = [ok |-> TRUE, map |-> m]
          /\ backupFile' = IF NothingToSave(m) THEN backupFile ELSE EnvContent(m)
          /\ env' = populateEnv(env, m)
    /\ usingSDK' = TRUE
    /\ timers' = startPolling(timers)
    /\ tier' = [tier EXCEPT !["api"] = "ok"]
    /\ pc' = "done"
    /\ UNCHANGED <<sdkError, cliError, backupError, retryError, thrown, ticks, fired,
                   last, snap, creds, requests, calls, frontVars>>

\* the timer fires: the callback's loadSecrets sends its request
fetchTick ==
    /\ pc = "done"
    /\ timers > 0
    /\ fired < MaxTicks
    /\ listSecretsFor("tick")
    /\ fired' = fired + 1
    /\ pc' = "tick"
    /\ UNCHANGED <<env, secrets, usingSDK, timers, backupFile, sdkError, cliError,
                   backupError, retryError, thrown, tier, ticks, last, initFetch, snap,
                   creds, calls, cliEnvironment, options, run, exec>>

\* the callback's request settles: on success the map is replaced, saved
\* and published; a failure is logged
fetchedTick ==
    /\ pc = "tick"
    /\ \/ \E m \in StageMaps :
             /\ secrets' = m
             /\ backupFile' = IF NothingToSave(m) THEN backupFile ELSE EnvContent(m)
             /\ env' = populateEnv(env, m)
       \/ UNCHANGED <<secrets, backupFile, env>>
    /\ pc' = "done"
    /\ UNCHANGED <<usingSDK, timers, sdkError, cliError, backupError, retryError, thrown,
                   tier, ticks, fired, last, initFetch, snap, creds, requests, calls,
                   frontVars>>

NextFetches ==
    \/ fetchInitial
    \/ fetchedInitial
    \/ fetchTick
    \/ fetchedTick

SpecFetches == InitFetches /\ [][NextFetches]_vars

----------------------------------------------------------------------------
(* Polling callbacks that overlap: a timer fires while an earlier callback *)
(* still awaits its fetch or its file write                               *)

\* callbacks that may be in flight at the same time
MaxOverlap == 2

Digits == <<"0", "1", "2", "3", "4", "5", "6", "7", "8", "9">>

\* what the remote service holds when the n-th fetch is started: the
\* secret A changes between any two fetches
Version(n) == <<[k |-> KA, v |-> <<Digits[n + 1]>>]>>

IdleCallback == [st |-> "idle", no |-> 0, content |-> <<>>]

\* a loader right after initialize() succeeded through the SDK tier: the
\* map fetched is saved and published, one timer runs
InitOverlap ==
    /\ secrets = Version(0)
    /\ backupFile = EnvContent(secrets)
    /\ \E e \in InitialEnvs :
          /\ snap = [env |-> e, backup |-> Absent, secrets |-> EmptyMap]
          /\ env = populateEnv(e, secrets)
    /\ usingSDK = TRUE
    /\ timers = startPolling(0)
    /\ sdkError = NoError
    /\ cliError = NoError
    /\ backupError = NoError
    /\ retryError = NoError
    /\ thrown = NoError
    /\ tier = [t \in Tiers |-> IF t = "api" THEN "ok" ELSE "idle"]
    /\ ticks = [i \in 1..MaxOverlap |-> IdleCallback]
    /\ fired = 0
    /\ last = NoTick
    /\ initFetch = [ok |-> TRUE, map |-> secrets]
    /\ creds = [id |-> <<"i">>, secret |-> <<"i">>]
    /\ requests = {}
    /\ calls = <<>>
    /\ pc = "done"
    /\ LibraryUse

\* the callback of slot i is over; what it did is recorded
callbackEnds(i, fetchOk, wrote) ==
    /\ requests' = requests \cup {[no |-> ticks[i].no, fetchOk |-> fetchOk, wrote |-> wrote]}
    /\ ticks' = [ticks EXCEPT ![i] = IdleCallback]

\* the timer fires, whatever the earlier callbacks are doing: the callback
\* calls loadSecrets, which sends the list-secrets request
callbackFires ==
    /\ timers > 0
    /\ fired < MaxTicks
    /\ \E i \in DOMAIN ticks :
          /\ ticks[i].st = "idle"
          /\ \A j \in 1..(i - 1) : ticks[j].st # "idle"
          /\ ticks' = [ticks EXCEPT ![i] = [IdleCallback EXCEPT !.st = "fetch",
                                                                !.no = fired + 1]]
    /\ fired' = fired + 1
    /\ UNCHANGED <<env, secrets, usingSDK, timers, backupFile, pc, sdkError, cliError,
                   backupError, retryError, thrown, tier, last, initFetch, snap,
                   creds, requests, calls, frontVars>>

\* a list-secrets request settles: on failure the callback's catch logs
\* it; on success this.secrets is replaced and saveBackup builds the file
\* content from it and starts the write
callbackLoadSecrets ==
    /\ \E i \in DOMAIN ticks :
          /\ ticks[i].st = "fetch"
          /\ \/ /\ callbackEnds(i, FALSE, FALSE)
                /\ UNCHANGED secrets
             \/ /\ secrets' = Version(ticks[i].no)
                /\ ticks' = [ticks EXCEPT ![i] = [@ EXCEPT !.st = "write",
                                                           !.content = EnvContent(secrets')]]
                /\ UNCHANGED requests
    /\ UNCHANGED <<env, usingSDK, timers, backupFile, pc, sdkError, cliError,
                   backupError, retryError, thrown, tier, fired, last, initFetch, snap,
                   creds, calls, frontVars>>

\* a file write settles: on success populateEnv publishes this.secrets as
\* it is by now; on failure the callback's catch logs it
callbackSaveBackup ==
    /\ \E i \in DOMAIN ticks :
          /\ ticks[i].st = "write"
          /\ \/ /\ backupFile' = ticks[i].content
                /\ env' = populateEnv(env, secrets)
                /\ callbackEnds(i, TRUE, TRUE)
             \/ /\ callbackEnds(i, TRUE, FALSE)
                /\ UNCHANGED <<backupFile, env>>
    /\ UNCHANGED <<secrets, usingSDK, timers, pc, sdkError, cliError, backupError,
                   retryError, thrown, tier, fired, last, initFetch, snap,
                   creds, calls, frontVars>>

NextOverlap ==
    \/ callbackFires
    \/ callbackLoadSecrets
    \/ callbackSaveBackup

SpecOverlap == InitOverlap /\ [][NextOverlap]_vars

----------------------------------------------------------------------------
(* saveBackup and loadBackup on their own: a loader holding any SecretMap    *)
(* saves it, then a loader of the same project root loads the file          *)

\* keys: non-empty, no '='
StoreKeys ==
    {<<"a">>, <<"#">>, <<" ">>, <<NL>>, <<" ", "a">>, <<"a", " ">>}

\* values: any string
StoreValues ==
    {<<>>, <<"1">>, <<"=">>, <<" ">>, <<NL>>, <<"1", "=", "=">>, <<"1", " ">>}

StoreEntries == {[k |-> key, v |-> val] : key \in StoreKeys, val \in StoreValues}

\* the SecretMaps of at most MaxEntries entries
StoreMaps ==
    {m \in UNION {[1..n -> StoreEntries] : n \in 0..MaxEntries} :
        \A i, j \in 1..Len(m) : i # j => m[i].k # m[j].k}

InitStore ==
    /\ secrets \in StoreMaps
    /\ backupFile \in {Absent, <<"A", "=", "0">>}
    /\ pc = "store"
    /\ env = <<>>
    /\ usingSDK = FALSE
    /\ timers = 0
    /\ sdkError = NoError
    /\ cliError = NoError
    /\ backupError = NoError
    /\ retryError = NoError
    /\ thrown = NoError
    /\ tier = [t \in Tiers |-> "idle"]
    /\ ticks = [i \in 1..MaxInflight |-> IdleTick]
    /\ fired = 0
    /\ last = NoTick
    /\ initFetch = [ok |-> FALSE, map |-> EmptyMap]
    /\ snap = [env |-> env, backup |-> backupFile, secrets |-> secrets]
    /\ creds = [id |-> Absent, secret |-> Absent]
    /\ requests = {}
    /\ calls = <<>>
    /\ LibraryUse

\* saveBackup() runs to its end
storeSave ==
    /\ pc = "store"
    /\ IF NothingToSave(secrets)
       THEN /\ pc' = "saved"
            /\ UNCHANGED <<backupFile, thrown>>
       ELSE \/ /\ backupFile' = EnvContent(secrets)
               /\ pc' = "saved"
               /\ UNCHANGED thrown
            \/ /\ thrown' = "BackupIOError"
               /\ pc' = "saveFailed"
               /\ UNCHANGED backupFile
    /\ UNCHANGED <<env, secrets, usingSDK, timers, sdkError, cliError, backupError,
                   retryError, tier, ticks, fired, last, initFetch, snap, frontVars,
                   creds, requests, calls>>

\* loadBackup() runs to its end
storeLoad ==
    /\ pc = "saved"
    /\ IF backupFile = Absent
       THEN /\ thrown' = "BackupNotFound"
            /\ pc' = "loadFailed"
            /\ UNCHANGED secrets
       ELSE \/ /\ thrown' = "BackupUnavailable"
               /\ pc' = "loadFailed"
               /\ UNCHANGED secrets
            \/ /\ secrets' = ParseBackup(backupFile)
               /\ pc' = "loaded"
               /\ UNCHANGED thrown
    /\ UNCHANGED <<env, usingSDK, timers, backupFile, sdkError, cliError, backupError,
                   retryError, tier, ticks, fired, last, initFetch, snap, frontVars,
                   creds, requests, calls>>

NextStore ==
    \/ storeSave
    \/ storeLoad

SpecStore == InitStore /\ [][NextStore]_vars

----------------------------------------------------------------------------
(* Properties *)

AllIdle == \A i \in 1..MaxInflight : ticks[i].st = "idle"

\* the text holds exactly the lines key=value of the entries of m, in order
HoldsEntries(file, m) ==
    /\ file # Absent
    /\ LET lines == Split(file, NL)
       IN  /\ Len(lines) = Len(m)
           /\ \A i \in 1..Len(m) :
                 /\ IndexOf(lines[i], "=") = Len(m[i].k)
                 /\ SubSeq(lines[i], 1, Len(m[i].k)) = m[i].k
                 /\ SubSeq(lines[i], Len(m[i].k) + 2, Len(lines[i])) = m[i].v

\* C1: every name that is set in process.env before initialize(), whatever
\* its value (the empty string included), still has its pre-set value after
\* initialize() and after every poll tick.
C1_NoOverwrite ==
    pc = "done" => \A key \in DOMAIN snap.env : EnvGet(env, key) = snap.env[key]

\* C2: the tiers run one at a time in the order SDK, CLI, backup: the CLI
\* tier is started only once the SDK tier has failed, the backup file is read
\* only once the CLI tier has failed, and a tier that succeeded is followed
\* by no other tier.
C2_TierOrder ==
    /\ tier["cli"] # "idle" => tier["api"] = "failed"
    /\ tier["backup"] # "idle" => tier["cli"] = "failed"
    /\ \A t \in Tiers, u \in Tiers : tier[t] = "running" /\ tier[u] = "running" => t = u
    /\ tier["api"] = "ok" => tier["cli"] = "idle" /\ tier["backup"] = "idle"
    /\ tier["cli"] = "ok" => tier["backup"] = "idle"

C2_Witness ==
    /\ pc = "done"
    /\ tier = [t \in Tiers |-> IF t = "backup" THEN "ok" ELSE "failed"]

\* C3: when the SDK tier, the CLI tier and the backup load all fail,
\* initialize() rejects with the error of the SDK tier and process.env is
\* what it was before the call.
C3_AllTiersFail ==
    pc = "failed" =>
        /\ \A t \in Tiers : tier[t] = "failed"
        /\ thrown = sdkError
        /\ thrown \in ApiErrors
        /\ env = snap.env

C3_Witness ==
    /\ pc = "failed"
    /\ thrown = "AuthFailure"
    /\ cliError = "LoginRequired"
    /\ backupError = "BackupUnavailable"

\* C4: once initialize() has succeeded through the CLI tier or the backup
\* tier, .env_backup holds what it held before initialize() (or is still
\* missing), no timer runs and no poll tick has fired.
C4_NoPersistOutsideSdk ==
    (pc = "done" /\ tier["api"] # "ok") =>
        /\ backupFile = snap.backup
        /\ timers = 0
        /\ fired = 0
        /\ AllIdle
        /\ ~usingSDK

C4_Witness ==
    /\ pc = "done"
    /\ tier["cli"] = "ok"
    /\ secrets # EmptyMap
    /\ snap.backup # Absent

\* C5: whenever the list-secrets request of initialize() succeeded, the
\* call ends with usingSDK set and a polling timer started, holding the
\* fetched SecretMap.
C5_FetchedMeansSdkActive ==
    (pc \in {"done", "failed"} /\ initFetch.ok) =>
        /\ pc = "done"
        /\ usingSDK
        /\ timers >= 1
        /\ fired = 0 => secrets = initFetch.map

\* C6: a poll tick that failed (its fetch, or a later step) left this.secrets
\* as it was when the tick started, raised nothing out of the callback, and
\* the timer is still there.
C6_FailedTickKeepsMap ==
    (last.op = "tick" /\ ~last.ok /\ AllIdle) =>
        /\ secrets = last.before
        /\ thrown = NoError
        /\ timers >= 1

\* C7: after a successful poll tick, a key whose fetched value differs from
\* the value the loader held before has the fetched value in process.env,
\* and a key the loader did not hold before is set in process.env.
C7_UpdatedValuesPublished ==
    (last.op = "tick" /\ last.ok /\ AllIdle) =>
        \A i \in 1..Len(last.fetched) :
            LET key == last.fetched[i].k
                value == last.fetched[i].v
            IN  IF HasKey(last.before, key)
                THEN Get(last.before, key) # value => EnvGet(env, key) = value
                ELSE key \in DOMAIN env

\* C8 (as claimed): after initialize() through the SDK tier, and after every
\* poll tick whose fetch succeeded, .env_backup holds exactly one key=value
\* line per entry of the SecretMap just fetched and no other line.
C8_BackupHoldsFetched ==
    /\ (pc = "done" /\ tier["api"] = "ok" /\ fired = 0) =>
           IF initFetch.map = EmptyMap
           THEN backupFile \in {Absent, <<>>}
           ELSE HoldsEntries(backupFile, initFetch.map)
    /\ (last.op = "tick" /\ last.fetchOk /\ AllIdle) =>
           IF last.fetched = EmptyMap
           THEN backupFile \in {Absent, <<>>}
           ELSE HoldsEntries(backupFile, last.fetched)

\* C8 (amended): after initialize() through the SDK tier with a non-empty
\* fetched SecretMap, and after every poll tick whose fetch returned a
\* non-empty SecretMap and whose file write succeeded, .env_backup holds
\* exactly the entries of the SecretMap just fetched, as key=value lines.
C8_BackupHoldsWritten ==
    /\ (pc = "done" /\ tier["api"] = "ok" /\ fired = 0 /\ initFetch.map # EmptyMap) =>
           HoldsEntries(backupFile, initFetch.map)
    /\ (last.op = "tick" /\ last.wrote) =>
           /\ last.fetched # EmptyMap
           /\ HoldsEntries(backupFile, last.fetched)

C8_Witness ==
    /\ last.op = "tick"
    /\ last.wrote
    /\ Len(last.fetched) = 2
    /\ last.fetched # initFetch.map
    /\ initFetch.map # EmptyMap

\* C9: saveBackup with an empty SecretMap writes nothing and raises nothing:
\* an existing .env_backup keeps its content, a missing one stays missing.
C9_EmptySaveIsNoop ==
    (pc \in {"saved", "saveFailed"} /\ snap.secrets = EmptyMap) =>
        /\ pc = "saved"
        /\ thrown = NoError
        /\ backupFile = snap.backup

C9_Witness ==
    /\ pc = "saved"
    /\ snap.secrets = EmptyMap
    /\ backupFile # Absent

HasNewline(str) == \E i \in 1..Len(str) : str[i] = NL

\* what the key=value text format can carry
Storable(m) ==
    /\ m # EmptyMap
    /\ \A i \in 1..Len(m) :
          /\ ~HasNewline(m[i].k)
          /\ ~HasNewline(m[i].v)
          /\ ~StartsWith(m[i].k, "#")
    /\ ~IsWhite(Head(m[1].k))
    /\ m[Len(m)].v # <<>> => ~IsWhite(m[Len(m)].v[Len(m[Len(m)].v)])

----------------------------------------------------------------------------
(* Properties of the CLI tier *)

\* every invocation of the run so far was rejected
AllInvocationsFailed == \A i \in 1..Len(calls) : calls[i].err # NoError

\* C11: when the API tier failed and every invocation of the CLI tier exited
\* with an error, one of them after printing at least one well-formed
\* key=value line with a non-zero exit code, the CLI tier succeeds and the
\* SecretMap holds the entries of that output.
C11_PartialSuccess ==
    \A i \in 1..Len(calls) :
       ( /\ tier["api"] = "failed"
         /\ tier["cli"] \in {"ok", "failed"}
         /\ AllInvocationsFailed
         /\ calls[i].err = "CommandFailed"
         /\ ParseCLI(calls[i].out) # EmptyMap )
       => /\ tier["cli"] = "ok"
          /\ pc = "done"
          /\ \A j \in 1..Len(ParseCLI(calls[i].out)) :
                LET e == ParseCLI(calls[i].out)[j]
                IN  HasKey(secrets, e.k) /\ Get(secrets, e.k) = e.v

\* C12: an invocation rejected with the login-required error is the last
\* invocation of the CLI tier, and the tier fails with that error.
C12_LoginRequiredIsFatal ==
    \A i \in 1..Len(calls) :
       calls[i].err = "LoginRequired"
       => /\ i = Len(calls)
          /\ pc \notin {"cli2", "cli3"}
          /\ tier["cli"] = "failed"
          /\ cliError = "LoginRequired"

\* the command lines of loadFromCLI, in the order the code builds them
CommandOrder == <<"projectId", "plain", "debug">>

\* the number of invocations started so far: those settled and the one
\* loadFromCLI is awaiting
Started ==
    Len(calls) + (IF pc \in {"cli1", "cli2", "cli3"} THEN 1 ELSE 0)

\* C18: the CLI tier starts at most three invocations, the i-th being the
\* i-th of: with --projectId, without --projectId, without --silent; every
\* invocation but the last settled with an error, and none is awaited after
\* one that resolved.
C18_InvocationOrder ==
    /\ Started <= 3
    /\ \A i \in 1..Len(calls) : calls[i].cmd = CommandOrder[i]
    /\ \A i \in 1..(Started - 1) : calls[i].err # NoError
    /\ pc = "cli1" => Started = 1
    /\ pc = "cli2" => Started = 2
    /\ pc = "cli3" => Started = 3

C18_Witness ==
    /\ Len(calls) = 3
    /\ calls[1].err = "CommandFailed"
    /\ calls[2].err = "LoginRequired"
    /\ calls[3].err = NoError
    /\ pc = "done"

\* C19: once the invocation without --silent has settled, the CLI tier has
\* failed with the error of the first invocation and the SecretMap holds
\* nothing that invocation printed.
C19_DiagnosticOnlyEnriches ==
    Len(calls) = 3
    => /\ tier["cli"] = "failed"
       /\ cliError = calls[1].err
       /\ secrets = EmptyMap \/ initFetch.ok

\* credentials initSDK cannot use: unset, empty, blank, or nothing but quotes
UnusableCredentials == {Absent, <<>>, <<" ">>, <<"\"", "\"">>, <<" ", "'">>}

\* C20: with INFISICAL_CLIENT_ID or INFISICAL_CLIENT_SECRET unset, or empty
\* once trimmed and unquoted, the SDK tier fails with the credentials error,
\* no login and no list-secrets request is ever sent, and loadFromCLI is called.
C20_NoRequestWithoutCredentials ==
    ( /\ creds.id \in UnusableCredentials \/ creds.secret \in UnusableCredentials
      /\ pc # "new" )
    => /\ requests = {}
       /\ sdkError = "AuthError"
       /\ tier["api"] = "failed"
       /\ tier["cli"] # "idle"

C20_Witness ==
    /\ creds.id = <<"'", "i", "'">>
    /\ creds.secret = <<" ", "'">>
    /\ pc = "done"
    /\ tier["cli"] = "ok"
    /\ Len(calls) = 1

----------------------------------------------------------------------------
(* Properties of the polling timer and of the run command *)

\* C14: a loader has at most one polling timer, however often initialize()
\* is called on it.
C14_SinglePollTimer == timers <= 1

\* C15: a child command exists only when initialize() has resolved; when
\* initialize() rejected no child was spawned, and once the action's catch
\* block has run the process has exited with a non-zero code.
C15_SpawnAfterInitialize ==
    /\ run.child # "none" => pc = "done"
    /\ pc = "failed" => /\ run.child = "none"
                        /\ run.st \in {"loading", "exited"}
                        /\ run.st = "exited" => run.exitCode # 0

C15_Witness ==
    /\ pc = "done"
    /\ tier["backup"] = "ok"
    /\ run.child = "exited"
    /\ run.exitCode = 2

----------------------------------------------------------------------------
(* Properties of the environment resolution *)

\* an override that is set and not blank
Given(x) == x # Absent /\ Trim(x) # <<>>

\* the mapping of the stage variable: matched in lower case, trimmed
StageOf(x) ==
    LET stage == Trim(ToLowerCase(x))
    IN  IF stage \in {development, dev} THEN development
        ELSE IF stage = staging THEN staging
        ELSE IF stage \in {production, prod} THEN production
        ELSE development

\* C13: the environment resolved is the loader's own override when given,
\* else INFISICAL_ENVIRONMENT when given, else the mapping of NODE_ENV
\* (lower-cased and trimmed; "development" for any other or no value).
C13_ResolutionPrecedence ==
    resolved # Absent
    => resolved =
          IF Given(cliEnvironment) THEN Trim(cliEnvironment)
          ELSE IF Given(EnvGet(env, INFISICAL_ENVIRONMENT))
          THEN Trim(EnvGet(env, INFISICAL_ENVIRONMENT))
          ELSE IF Given(EnvGet(env, NODE_ENV)) THEN StageOf(EnvGet(env, NODE_ENV))
          ELSE development

\* C16: in a run command given --env E, E not empty, the environment
\* resolved is E (as given, or as the stage mapping reads it) whatever
\* INFISICAL_ENVIRONMENT and NODE_ENV held before.
C16_EnvOptionWins ==
    (run.st = "loading" /\ ~Falsy(options.env) /\ resolved # Absent)
    => resolved \in {Trim(options.env), StageOf(options.env)}

----------------------------------------------------------------------------
(* Properties of execWithStreaming *)

\* C17: once the output received on standard output, or the output
\* received on standard error, holds the login phrase, the invocation is
\* rejected with the login-required error and the child has been killed.
C17_LoginPhraseDetected ==
    (Includes(exec.stdout, LoginPhrase) \/ Includes(exec.stderr, LoginPhrase))
    => /\ exec.result = "rejected"
       /\ exec.error = "LoginRequired"
       /\ exec.killed

----------------------------------------------------------------------------
(* Properties of the two readers *)

\* C21: a text read as the standard output of the CLI and read as the
\* content of .env_backup gives the same SecretMap.
C21_SameParsingRule ==
    pc = "parsed" => SameMap(secrets, snap.secrets)

----------------------------------------------------------------------------
(* Properties of the run command's exit code *)

\* C22: once the child has ended, the tool's exit code is not 0 when the
\* child ended with a code other than 0 or by a signal, is 0 only when the
\* child exited with code 0, and is 1 when the child could not be spawned.
C22_ExitCodePropagated ==
    (run.st = "exited" /\ run.child # "none")
    => /\ (run.child = "signalled" \/ (run.child = "exited" /\ run.childCode # 0))
          => run.exitCode # 0
       /\ run.exitCode = 0 => (run.child = "exited" /\ run.childCode = 0)
       /\ run.child = "error" => run.exitCode = 1

----------------------------------------------------------------------------
(* Properties of the fetches of a loader in SDK mode *)

\* C23: every list-secrets request of a loader, the one of initialize()
\* and those of the poll ticks, names the same environment.
C23_SameEnvironmentEveryFetch ==
    \A r1 \in requests : \A r2 \in requests : r1.environment = r2.environment

----------------------------------------------------------------------------
(* Properties of overlapping polling callbacks *)

\* the number of the fetch started last among those that succeeded; 0 is
\* the fetch of initialize()
LatestFetched ==
    LET ok == {r.no : r \in {q \in requests : q.fetchOk}} \cup {0}
    IN  CHOOSE n \in ok : \A m \in ok : m <= n

\* C24: in SDK mode, with no callback in flight, every write succeeded and
\* a non-empty SecretMap, .env_backup holds the SecretMap and the SecretMap
\* is what the fetch started last among the successful ones returned.
C24_QuiescentStateIsLatest ==
    ( /\ usingSDK
      /\ \A i \in DOMAIN ticks : ticks[i].st = "idle"
      /\ \A r \in requests : r.fetchOk => r.wrote
      /\ secrets # EmptyMap )
    => /\ SameMap(ParseBackup(backupFile), secrets)
       /\ secrets = Version(LatestFetched)

\* C25: an invocation is settled exactly when it has an outcome; it has
\* resolved only if the child closed with exit code 0; once the child has
\* closed with another code or with none, or could not be spawned, or a
\* chunk held the login phrase, it is rejected.
C25_ResolvesOnlyOnExitZero ==
    /\ exec.settled <=> exec.result # "pending"
    /\ exec.result = "resolved" => (exec.st = "closed" /\ exec.code = "0")
    /\ (exec.st = "closed" /\ exec.code # "0") => exec.result = "rejected"
    /\ exec.error # NoError => exec.result = "rejected"

\* C26: in a run command, the environment resolved is the one resolved
\* from the same process environment by a loader constructed without an
\* environment, whatever --path was given.
C26_PathDoesNotSelectEnvironment ==
    (run.st = "loading" /\ resolved # Absent)
    => resolved = getInfisicalEnvironment(Absent, env)

====
